---- MODULE Spec2Model ----
(***************************************************************************)
(* Verification model of bmcbutler's connection-and-dispatch engine:       *)
(*   - bmclogin.Params.Login / attemptLogin      (credential x IP x retry) *)
(*   - discover.ScanAndConnect / swapProbe       (vendor probing)          *)
(*   - configure.Cmc.Apply                       (resource application)    *)
(* Each component has its own specification (LoginSpec, ScanSpec,          *)
(* ApplySpec); the variables of the other components stay at their idle    *)
(* values.  Remote devices, probes and callbacks are the environment:      *)
(* their answers are drawn with \E at every call.                          *)
(***************************************************************************)
EXTENDS Integers, Sequences, FiniteSets, TLC

VARIABLES
    \* ---- bmclogin.Params
    IpAddresses,      \* Params.IpAddresses : sequence of strings
    Credentials,      \* Params.Credentials : sequence of user/password pairs
    CheckCredential,  \* Params.CheckCredential
    Retries,          \* Params.Retries
    \* ---- Login() locals and results
    lpc,              \* "start" | "loop" | "done"
    lpos,             \* the loop indices [c, i, t] of the next attempt
    loginInfo,        \* LoginInfo
    loginConn,        \* returned connection
    loginErr,         \* returned err
    \* ---- Login() history (observations, not program state)
    lastAttempt,      \* the latest attemptLogin call and what it returned
    probed,           \* the (credential index, IP index) pairs handed to the prober
    sawError,         \* some attemptLogin call returned an error
    inactiveIps,      \* IP indices whose controller answered "not active"
    \* ---- discover.ScanAndConnect
    Hint,             \* opts.Hint
    testEnv,          \* os.Getenv("BMCLIB_TEST") == "1"
    spc,              \* "start" | "probe" | "done"
    order,            \* the try-order slice (empty before it is built)
    sidx,             \* index of the next probe in order
    scanConn,         \* returned bmcConnection
    scanErr,          \* returned err
    \* ---- ScanAndConnect history
    probeCalls,       \* probe IDs called, in call order
    hintCalls,        \* probe IDs the hint callback was called with
    hintFailed,       \* the hint callback returned an error
    opened,           \* probe IDs whose probe returned a non-nil handle
    closed,           \* handles released with Close()
    \* ---- configure.Cmc and Cmc.Apply
    bResources,       \* Cmc.resources, the caller's --resources list
    devResources,     \* what b.configure.Resources() returns
    config,           \* the sections of Cmc.config that are not nil
    stopClosed,       \* stopChan has been closed
    apc,              \* "start" | "loop" | "done"
    interrupt,        \* the local flag the watcher goroutine sets
    resources,        \* the local slice of resources to apply
    aidx,             \* index of the next resource in resources
    failed,           \* the local slice failed
    success,          \* the local slice success
    \* ---- Apply history
    calls,            \* the b.configure calls made: [idx, res, err, lookupErr]
    sawInterrupt,     \* the latest `interrupt == true` check read true
    \* ---- butler.Butler
    bInterrupt,       \* Butler.interrupt
    \* ---- butler.msgHandler and butler.configureAsset, for one message
    asset,            \* msg.Asset
    Locations,        \* b.Config.Locations
    IgnoreLocation,   \* b.Config.IgnoreLocation
    DryRun,           \* b.Config.DryRun
    hpc,              \* "start" | "execute" | "configure" | "connected" | "done"
    metrics,          \* the butler counters, by name
    client,           \* the handle Login() returned to configureAsset
    clientOpen,       \* that handle has not been closed
    returned,         \* what configureAsset returned ("none" before it returns)
    \* ---- msgHandler history
    hcalls,           \* the calls made on behalf of the message, in order
    sawBInterrupt,    \* msgHandler read b.interrupt as true
    \* ---- butler.Runner and its worker pool
    ButlersToSpawn,   \* b.Config.ButlersToSpawn
    butlerChan,       \* the messages buffered in ButlerChan
    sent,             \* how many messages the inventory has sent
    chanClosed,       \* ButlerChan has been closed
    rpc,              \* "loop" | "throttle" | "stopping" | "stopwait" | "done"
    msg,              \* the message Runner received and has not submitted yet
    waitingQueue,     \* the pool's waiting queue
    task,             \* per message: "none" | "assigned" | "running" | "connected" | "finished"
    outcome,          \* per message: "none" | "skipped" | "login_failed" | "logged_in"
    \* ---- Runner history
    applied,          \* messages for which Apply() was called
    abandoned,        \* messages in the waiting queue when Stop() was called
    inFlightAtStop,   \* messages whose handler was executing when Stop() was called
    \* ---- inventory.Dora: AssetIter and AssetIterBySerial
    FilterAssetType,  \* Dora.FilterAssetType
    bySerial,         \* the iterator is AssetIterBySerial
    ipc,              \* "start" | "query" | "done" | "exited" | "panicked"
    tidx,             \* index of the asset type in FilterAssetType
    page,             \* number of the page queryURL points at
    assetsChan,       \* the batches buffered in AssetsChan (their sizes)
    assetsChanClosed, \* AssetsChan has been closed
    \* ---- iterator history
    lastAnswer        \* what the inventory answered to the latest query

lvars == <<IpAddresses, Credentials, CheckCredential, Retries, lpc, lpos,
           loginInfo, loginConn, loginErr, lastAttempt, probed, sawError,
           inactiveIps>>

svars == <<Hint, testEnv, spc, order, sidx, scanConn, scanErr, probeCalls,
           hintCalls, hintFailed, opened, closed>>

avars == <<bResources, devResources, config, stopClosed, apc, interrupt,
           resources, aidx, failed, success, calls, sawInterrupt>>

hvars == <<asset, Locations, IgnoreLocation, DryRun, hpc, metrics, client,
           clientOpen, returned, hcalls, sawBInterrupt>>

rvars == <<ButlersToSpawn, butlerChan, sent, chanClosed, rpc, msg,
           waitingQueue, task, outcome, applied, abandoned, inFlightAtStop>>

\* The dispatcher's variables.
dvars == <<bInterrupt, hvars, rvars>>

ivars == <<FilterAssetType, bySerial, ipc, tidx, page, assetsChan,
           assetsChanClosed, lastAnswer>>

vars == <<lvars, svars, avars, dvars, ivars>>

----------------------------------------------------------------------------
(* Bounds of the model. *)
MaxIps == 2
MaxCreds == 2
MaxRetries == 1
MaxRes == 2
MaxLocs == 1
MaxButlers == 1
MaxMsgs == 4
MaxPages == 2
MaxAssets == 1

SeqsUpTo(S, n) == UNION {[1..k -> S] : k \in 0..n}

Min(S) == CHOOSE x \in S : \A y \in S : x <= y

----------------------------------------------------------------------------
(* bmclogin: Params.Login and Params.attemptLogin                          *)

\* Login never compares two addresses or two credentials with each other:
\* it only tests an address against "".  So the lists hold a distinct
\* address or "" at each place, and distinct credentials.
IpAt(j) == "10.0.0." \o ToString(j)

IpLists ==
    UNION {{[j \in 1..k |-> IF e[j] THEN "" ELSE IpAt(j)] : e \in [1..k -> BOOLEAN]} :
             k \in 0..MaxIps}

\* A credential map holds one user/password pair here; a map with several
\* pairs behaves as that many consecutive credentials.
CredAt(j) == "user" \o ToString(j)

CredLists == {[j \in 1..k |-> CredAt(j)] : k \in 0..MaxCreds}

Nil == "nil"
NoErr == "nil"
ErrAllFailed == "All attempts to login failed."
ErrScan == "ScanAndConnect attempt unsuccessful."
ErrBmcLogin == "BMC login attempt failed"
ErrChassisLogin == "Chassis login attempt failed"
ErrUnrecognized == "Unrecognized device type."

\* What discover.ScanAndConnect hands back: an error, or a connection that
\* is a devices.Bmc, a devices.BmcChassis, or neither.
ScanResults == {"err", "bmc", "chassis", "other"}

NoAttempt == [c |-> 0, i |-> 0, t |-> 0, conn |-> Nil, ipInactive |-> FALSE, err |-> NoErr]

EmptyLoginInfo ==
    [FailedCredentials |-> <<>>, WorkingCredentials |-> Nil,
     ActiveIpAddress |-> "", Attempts |-> 0]

\* attemptLogin(ip, user, pass): scan is ScanAndConnect's answer, credOk the
\* device's CheckCredentials() answer, active the chassis' IsActive() answer.
attemptLogin(scan, credOk, active) ==
    IF scan = "err"
    THEN [conn |-> Nil, ipInactive |-> FALSE, err |-> ErrScan]
    ELSE IF ~CheckCredential
    THEN [conn |-> scan, ipInactive |-> FALSE, err |-> NoErr]
    ELSE IF scan = "bmc"
    THEN IF ~credOk
         THEN [conn |-> scan, ipInactive |-> FALSE, err |-> ErrBmcLogin]
         ELSE [conn |-> scan, ipInactive |-> FALSE, err |-> NoErr]
    ELSE IF scan = "chassis"
    THEN IF ~credOk
         THEN [conn |-> scan, ipInactive |-> FALSE, err |-> ErrChassisLogin]
         ELSE IF ~active
         THEN [conn |-> scan, ipInactive |-> TRUE, err |-> NoErr]
         ELSE [conn |-> scan, ipInactive |-> FALSE, err |-> NoErr]
    ELSE [conn |-> scan, ipInactive |-> FALSE, err |-> ErrUnrecognized]

\* `if ip == "" { continue }`
IpSkipped(ip) == ip = ""

\* The credential and IP loops: the first (credential, IP) at or after (c, i)
\* in loop order whose IP is not skipped; c = 0 when the loops are over.
RECURSIVE SeekAttempt(_, _)
SeekAttempt(c, i) ==
    IF c > Len(Credentials) THEN [c |-> 0, i |-> 0, t |-> 0]
    ELSE IF i > Len(IpAddresses) THEN SeekAttempt(c + 1, 1)
    ELSE IF IpSkipped(IpAddresses[i]) THEN SeekAttempt(c, i + 1)
    ELSE [c |-> c, i |-> i, t |-> 0]

\* Faulty variant: the credential loop stands inside the IP loop.
AfterFailed_CredentialInner(c, i, t) ==
    IF t + 1 <= Retries THEN [c |-> c, i |-> i, t |-> t + 1]
    ELSE IF c + 1 <= Len(Credentials) THEN [c |-> c + 1, i |-> i, t |-> 0]
    ELSE IF i + 1 <= Len(IpAddresses) THEN [c |-> 1, i |-> i + 1, t |-> 0]
    ELSE [c |-> 0, i |-> 0, t |-> 0]

\* Faulty variant: the retry loop runs one pass too many.
AfterFailed_ExtraPass(c, i, t) ==
    IF t + 1 <= Retries + 1 THEN [c |-> c, i |-> i, t |-> t + 1]
    ELSE SeekAttempt(c, i + 1)

\* The retry loop `for t := 0; t <= p.Retries; t++` after a failed attempt.
AfterFailed(c, i, t) ==
    IF t + 1 <= Retries THEN [c |-> c, i |-> i, t |-> t + 1]
    ELSE SeekAttempt(c, i + 1)

\* Faulty variant: the `break` leaves the IP loop too: on to the next credential.
AfterInactive_BreaksIpLoop(c, i) == SeekAttempt(c + 1, 1)

\* `break` out of the retry loop on an inactive controller: on to the next IP.
AfterInactive(c, i) == SeekAttempt(c, i + 1)

\* Faulty variant: the `err == nil` test is inverted.
Classify_InvertedErr(r) ==
    IF r.ipInactive
    THEN IF Len(IpAddresses) = 1 THEN "last_resort" ELSE "next_ip"
    ELSE IF r.err # NoErr THEN "success" ELSE "failed"

\* Faulty variant: the ipInactive answer is ignored.
Classify_IgnoresInactive(r) ==
    IF r.err = NoErr THEN "success" ELSE "failed"

\* Faulty variant: no last-resort acceptance of a single inactive controller.
Classify_NoLastResort(r) ==
    IF r.ipInactive
    THEN "next_ip"
    ELSE IF r.err = NoErr THEN "success" ELSE "failed"

\* What Login does with the answer of attemptLogin.
Classify(r) ==
    IF r.ipInactive
    THEN IF Len(IpAddresses) = 1 THEN "last_resort" ELSE "next_ip"
    ELSE IF r.err = NoErr THEN "success" ELSE "failed"

LoginTypeOK ==
    /\ lpc \in {"start", "loop", "done"}
    /\ loginInfo.Attempts \in Nat

LoginInit ==
    /\ IpAddresses \in IpLists
    /\ Credentials \in CredLists
    /\ CheckCredential \in BOOLEAN
    /\ Retries \in 0..MaxRetries
    /\ lpc = "start"
    /\ lpos = [c |-> 0, i |-> 0, t |-> 0]
    /\ loginInfo = EmptyLoginInfo
    /\ loginConn = Nil
    /\ loginErr = NoErr
    /\ lastAttempt = NoAttempt
    /\ probed = {}
    /\ sawError = FALSE
    /\ inactiveIps = {}

\* `return connection, loginInfo, errors.New("All attempts to login failed.")`
LoginFails ==
    /\ lpc' = "done"
    /\ loginConn' = Nil
    /\ loginErr' = ErrAllFailed

\* Move on to attempt `next`, or fall out of the loops.
LoginGoto(next) ==
    /\ lpos' = next
    /\ IF next.c = 0
       THEN LoginFails
       ELSE /\ lpc' = "loop"
            /\ UNCHANGED <<loginConn, loginErr>>

\* Entry of Login(): the Retries default, then the loops start.
LoginEnter ==
    /\ lpc = "start"
    /\ Retries' = IF Retries = 0 THEN 1 ELSE Retries
    /\ LoginGoto(SeekAttempt(1, 1))
    /\ UNCHANGED <<IpAddresses, Credentials, CheckCredential, loginInfo,
                   lastAttempt, probed, sawError, inactiveIps>>
    /\ UNCHANGED <<svars, avars, dvars, ivars>>

\* One pass through the body of the retry loop.
LoginAttempt ==
    /\ lpc = "loop"
    /\ \E scan \in ScanResults, credOk \in BOOLEAN, active \in BOOLEAN :
         LET c == lpos.c
             i == lpos.i
             t == lpos.t
             r == attemptLogin(scan, credOk, active)
             k == Classify(r)
             counted == [loginInfo EXCEPT !.Attempts = @ + 1]
         IN  /\ lastAttempt' = [c |-> c, i |-> i, t |-> t, conn |-> r.conn,
                                ipInactive |-> r.ipInactive, err |-> r.err]
             /\ probed' = probed \cup {<<c, i>>}
             /\ sawError' = (sawError \/ r.err # NoErr)
             /\ inactiveIps' = IF r.ipInactive THEN inactiveIps \cup {i} ELSE inactiveIps
             /\ CASE k = "last_resort" ->
                       /\ loginInfo' = [counted EXCEPT !.WorkingCredentials = Credentials[c]]
                       /\ lpc' = "done"
                       /\ loginConn' = r.conn
                       /\ loginErr' = r.err
                       /\ UNCHANGED lpos
                  [] k = "next_ip" ->
                       /\ loginInfo' = counted
                       /\ LoginGoto(AfterInactive(c, i))
                  [] k = "success" ->
                       /\ loginInfo' = [counted EXCEPT
                                          !.ActiveIpAddress = IpAddresses[i],
                                          !.WorkingCredentials = Credentials[c]]
                       /\ lpc' = "done"
                       /\ loginConn' = r.conn
                       /\ loginErr' = r.err
                       /\ UNCHANGED lpos
                  [] OTHER ->
                       /\ loginInfo' = [counted EXCEPT
                                          !.FailedCredentials = Append(@, Credentials[c])]
                       /\ LoginGoto(AfterFailed(c, i, t))
    /\ UNCHANGED <<IpAddresses, Credentials, CheckCredential, Retries>>
    /\ UNCHANGED <<svars, avars, dvars, ivars>>

LoginNext == LoginEnter \/ LoginAttempt

----------------------------------------------------------------------------
(* discover: ScanAndConnect and swapProbe                                  *)

ProbeHpIlo == "hpilo"
ProbeIdrac8 == "idrac8"
ProbeIdrac9 == "idrac9"
ProbeSupermicrox == "supermicrox"
ProbeSupermicrox11 == "supermicrox11"
ProbeHpC7000 == "hpc7000"
ProbeM1000e == "m1000e"
ProbeQuanta == "quanta"
ProbeHpCl100 == "hpcl100"

\* `order := []string{...}`
CatalogOrder ==
    <<ProbeHpIlo, ProbeIdrac8, ProbeIdrac9, ProbeSupermicrox11, ProbeSupermicrox,
      ProbeHpC7000, ProbeM1000e, ProbeQuanta, ProbeHpCl100>>

ProbeIds == {CatalogOrder[j] : j \in 1..Len(CatalogOrder)}

\* Hints a caller may pass: none, a catalog probe, or an ID of no probe.
HintValues == {""} \cup ProbeIds \cup {"ibmc"}

ErrVendorUnknown == "unable to identify the vendor"
ErrHintCallback == "hint callback error"
ErrHttpClient == "httpclient.Build error"
DummyIbmc == "dummy ibmc"

\* Faulty variant: the hinted probe overwrites the first one instead of swapping.
swapProbe_Overwrites(ord, hint) ==
    LET at == {j \in 1..Len(ord) : ord[j] = hint}
    IN  IF at = {} THEN ord ELSE [ord EXCEPT ![1] = hint]

\* swapProbe(order, hint): exchanges the first match of hint with order[0].
swapProbe(ord, hint) ==
    LET at == {j \in 1..Len(ord) : ord[j] = hint}
    IN  IF at = {} THEN ord
        ELSE LET j == Min(at)
             IN  [ord EXCEPT ![1] = ord[j], ![j] = ord[1]]

\* `if opts.Hint != "" { swapProbe(order, opts.Hint) }`
EffectiveOrder(hint) ==
    IF hint # "" THEN swapProbe(CatalogOrder, hint) ELSE CatalogOrder

\* What a vendor probe hands back: an error, no error with a nil
\* connection, or no error with a connection.
ProbeResults == {"err", "nil", "conn"}

ScanIdle ==
    /\ Hint = ""
    /\ testEnv = FALSE
    /\ spc = "idle"
    /\ order = <<>>
    /\ sidx = 0
    /\ scanConn = Nil
    /\ scanErr = NoErr
    /\ probeCalls = <<>>
    /\ hintCalls = <<>>
    /\ hintFailed = FALSE
    /\ opened = {}
    /\ closed = {}

ScanInit ==
    /\ Hint \in HintValues
    /\ testEnv \in BOOLEAN
    /\ spc = "start"
    /\ order = <<>>
    /\ sidx = 0
    /\ scanConn = Nil
    /\ scanErr = NoErr
    /\ probeCalls = <<>>
    /\ hintCalls = <<>>
    /\ hintFailed = FALSE
    /\ opened = {}
    /\ closed = {}

\* Faulty variant: the result is set but the `return` is missing.
ScanReturn_KeepsProbing(conn, err) ==
    /\ spc' = spc
    /\ scanConn' = conn
    /\ scanErr' = err

\* `return conn, err`
ScanReturn(conn, err) ==
    /\ spc' = "done"
    /\ scanConn' = conn
    /\ scanErr' = err

\* BMCLIB_TEST=1: `bmc, err := ibmc.New(host, username, password); return bmc, err`
ScanDummy ==
    /\ spc = "start"
    /\ testEnv
    /\ \E err \in {NoErr, "ibmc.New error"} : ScanReturn(DummyIbmc, err)
    /\ UNCHANGED <<Hint, testEnv, order, sidx, probeCalls, hintCalls,
                   hintFailed, opened, closed>>
    /\ UNCHANGED <<lvars, avars, dvars, ivars>>

\* httpclient.Build fails: `return nil, err`
ScanNoClient ==
    /\ spc = "start"
    /\ ~testEnv
    /\ ScanReturn(Nil, ErrHttpClient)
    /\ UNCHANGED <<Hint, testEnv, order, sidx, probeCalls, hintCalls,
                   hintFailed, opened, closed>>
    /\ UNCHANGED <<lvars, avars, dvars, ivars>>

\* The try-order is built and the probe loop is entered.
ScanEnter ==
    /\ spc = "start"
    /\ ~testEnv
    /\ order' = EffectiveOrder(Hint)
    /\ sidx' = 1
    /\ spc' = "probe"
    /\ UNCHANGED <<Hint, testEnv, scanConn, scanErr, probeCalls, hintCalls,
                   hintFailed, opened, closed>>
    /\ UNCHANGED <<lvars, avars, dvars, ivars>>

\* `continue`, or `return nil, errors.ErrVendorUnknown` after the last probe.
ScanContinue ==
    /\ sidx' = sidx + 1
    /\ IF sidx + 1 > Len(order)
       THEN ScanReturn(Nil, ErrVendorUnknown)
       ELSE UNCHANGED <<spc, scanConn, scanErr>>

\* One pass through the body of the probe loop: probe order[sidx].
ScanProbe ==
    /\ spc = "probe"
    /\ \E res \in ProbeResults, hintErr \in {NoErr, ErrHintCallback} :
         LET probeID == order[sidx]
         IN  /\ probeCalls' = Append(probeCalls, probeID)
             /\ opened' = IF res = "conn" THEN opened \cup {probeID} ELSE opened
             /\ IF res = "err"
                THEN /\ ScanContinue
                     /\ UNCHANGED <<hintCalls, hintFailed>>
                ELSE /\ hintCalls' = Append(hintCalls, probeID)
                     /\ hintFailed' = (hintErr # NoErr)
                     /\ IF hintErr # NoErr
                        THEN /\ ScanReturn(Nil, hintErr)
                             /\ UNCHANGED sidx
                        ELSE IF res = "conn"
                        THEN /\ ScanReturn(probeID, NoErr)
                             /\ UNCHANGED sidx
                        ELSE ScanContinue
    /\ UNCHANGED <<Hint, testEnv, order, closed>>
    /\ UNCHANGED <<lvars, avars, dvars, ivars>>

ScanNext == ScanDummy \/ ScanNoClient \/ ScanEnter \/ ScanProbe

----------------------------------------------------------------------------
(* configure: Cmc.Apply                                                    *)

\* The cases of `switch resource`, in the order of the source.
ResourceCatalog ==
    <<"user", "syslog", "ntp", "ldap", "ldap_group", "license", "network">>

KnownResources == {ResourceCatalog[j] : j \in 1..Len(ResourceCatalog)}

\* Names a resource list may hold: the known ones and one the switch does
\* not know.
ResourceNames == KnownResources \cup {"bios"}

ErrApply == "apply error"

\* The sections of b.config a case tests for nil before it calls b.configure.
NeededSections(res) ==
    CASE res = "user" -> {"User"}
      [] res = "syslog" -> {"Syslog"}
      [] res = "ntp" -> {"Ntp"}
      [] res = "ldap" -> {"Ldap"}
      [] res = "ldap_group" -> {"LdapGroups", "Ldap"}
      [] res = "license" -> {"License"}
      [] res = "network" -> {"Network"}
      [] OTHER -> {}

\* The case of `resource` calls b.configure: a known name, its sections set.
CallsConfigure(res) ==
    /\ res \in KnownResources
    /\ NeededSections(res) \subseteq config

\* The value of the loop's `err` after the switch, callErr being what the
\* b.configure call returned.  In the ldap_group case `o, err := ...`
\* declares a new err inside the if block, and the result of LdapGroups() is
\* assigned to that inner err: the loop's err stays nil.
LoopErr(res, callErr) ==
    IF ~CallsConfigure(res) THEN NoErr
    ELSE IF res = "ldap_group" THEN NoErr
    ELSE callErr

RECURSIVE Reverse(_)
Reverse(q) == IF q = <<>> THEN <<>> ELSE Append(Reverse(Tail(q)), Head(q))

\* Faulty variant: the caller's list is ignored.
ChosenResources_AlwaysDefault(given, default) == default

\* Faulty variant: the chosen list is walked from its end.
ChosenResources_Reversed(given, default) ==
    IF Len(given) > 0 THEN Reverse(given) ELSE Reverse(default)

\* `if len(b.resources) > 0 { resources = b.resources } else { resources = b.configure.Resources() }`
ChosenResources(given, default) ==
    IF Len(given) > 0 THEN given ELSE default

\* Faulty variant: the check never leaves the loop.
BreaksLoop_Never(seen) == FALSE

\* `if interrupt == true { ...; break }`
BreaksLoop(seen) == seen

\* What the check can read from `interrupt`.  The watcher goroutine writes
\* the flag and the loop reads it with no synchronisation: a read that races
\* with the write may see the old value.
InterruptReads == IF interrupt THEN {TRUE, FALSE} ELSE {FALSE}

\* Sections Apply can read for a resource list; the others stay nil.
RelevantSections(list) == UNION {NeededSections(list[j]) : j \in 1..Len(list)}

ApplyIdle ==
    /\ bResources = <<>>
    /\ devResources = <<>>
    /\ config = {}
    /\ stopClosed = FALSE
    /\ apc = "idle"
    /\ interrupt = FALSE
    /\ resources = <<>>
    /\ aidx = 0
    /\ failed = <<>>
    /\ success = <<>>
    /\ calls = <<>>
    /\ sawInterrupt = FALSE

ApplyInit ==
    /\ bResources \in SeqsUpTo(ResourceNames, MaxRes)
    /\ devResources \in IF bResources = <<>>
                        THEN SeqsUpTo(ResourceNames, MaxRes)
                        ELSE {ResourceCatalog}
    /\ config \in SUBSET RelevantSections(
                     IF bResources = <<>> THEN devResources ELSE bResources)
    /\ stopClosed = FALSE
    /\ apc = "start"
    /\ interrupt = FALSE
    /\ resources = <<>>
    /\ aidx = 0
    /\ failed = <<>>
    /\ success = <<>>
    /\ calls = <<>>
    /\ sawInterrupt = FALSE

\* close(stopChan), by the signal handler.
StopSignal ==
    /\ ~stopClosed
    /\ stopClosed' = TRUE
    /\ UNCHANGED <<bResources, devResources, config, apc, interrupt, resources,
                   aidx, failed, success, calls, sawInterrupt>>
    /\ UNCHANGED <<lvars, svars, dvars, ivars>>

\* `go func() { <-b.stopChan; interrupt = true }()`
ApplyWatcher ==
    /\ apc \in {"loop", "done"}
    /\ stopClosed
    /\ ~interrupt
    /\ interrupt' = TRUE
    /\ UNCHANGED <<bResources, devResources, config, stopClosed, apc, resources,
                   aidx, failed, success, calls, sawInterrupt>>
    /\ UNCHANGED <<lvars, svars, dvars, ivars>>

\* Entry of Apply(): the watcher is started and the resource list chosen.
ApplyEnter ==
    /\ apc = "start"
    /\ resources' = ChosenResources(bResources, devResources)
    /\ aidx' = 1
    /\ apc' = IF Len(resources') = 0 THEN "done" ELSE "loop"
    /\ UNCHANGED <<bResources, devResources, config, stopClosed, interrupt,
                   failed, success, calls, sawInterrupt>>
    /\ UNCHANGED <<lvars, svars, dvars, ivars>>

\* One pass through the body of `for _, resource := range resources`.
ApplyResource ==
    /\ apc = "loop"
    /\ \E seen \in InterruptReads, callErr \in {NoErr, ErrApply}, lookupErr \in BOOLEAN :
         LET resource == resources[aidx]
             err == LoopErr(resource, callErr)
         IN  /\ sawInterrupt' = seen
             /\ IF BreaksLoop(seen)
                THEN /\ apc' = "done"
                     /\ UNCHANGED <<aidx, failed, success, calls>>
                ELSE /\ calls' = IF CallsConfigure(resource)
                                 THEN Append(calls,
                                        [idx |-> aidx, res |-> resource, err |-> callErr,
                                         lookupErr |-> (resource = "ldap_group" /\ lookupErr)])
                                 ELSE calls
                     /\ IF err # NoErr
                        THEN /\ failed' = Append(failed, resource)
                             /\ UNCHANGED success
                        ELSE /\ success' = Append(success, resource)
                             /\ UNCHANGED failed
                     /\ aidx' = aidx + 1
                     /\ apc' = IF aidx + 1 > Len(resources) THEN "done" ELSE "loop"
    /\ UNCHANGED <<bResources, devResources, config, stopClosed, interrupt, resources>>
    /\ UNCHANGED <<lvars, svars, dvars, ivars>>

ApplyNext == StopSignal \/ ApplyWatcher \/ ApplyEnter \/ ApplyResource

----------------------------------------------------------------------------
(* butler: msgHandler and configureAsset                                   *)

\* The address an inventory gives an asset it has no address for.
PlaceholderIp == "0.0.0.0"

AssetIpLists == SeqsUpTo({PlaceholderIp, IpAt(1)}, MaxIps)

LocationNames == {"ams4", "lhr4"}

MetricNames ==
    {"asset_recvd", "asset_recvd_noip", "asset_recvd_location_unmanaged",
     "execute_fail", "execute_success", "configure_fail", "configure_success"}

\* The dynamic types a handle returned by Login() can have in the type
\* switch of configureAsset: devices.Bmc, devices.BmcChassis, or neither.
ClientTypes == {"bmc", "chassis", "other"}

\* What LoadConfigResources() can return: nil, a configuration without a
\* SetupChassis section, or one with it.
RenderedConfigs == {Nil, "plain", "withSetup"}

ErrExecute == "execute error"
ErrNoConfig == "No BMC configuration to be applied"
ErrUnknownAsset == "Unknown asset type"
NotReturned == "none"

\* What the check at the top of msgHandler can read from b.interrupt.  Runner
\* writes the flag in its own goroutine and the workers read it with no
\* synchronisation: a read that races with the write may see the old value.
BInterruptReads == IF bInterrupt THEN {TRUE, FALSE} ELSE {FALSE}

\* Faulty variant: only the empty list counts as "no address".
NoIpInfo_EmptyOnly(ips) == Len(ips) = 0

\* `len(IPAddresses) == 0 || len(IPAddresses) == 1 && IPAddresses[0] == "0.0.0.0"`
NoIpInfo(ips) ==
    \/ Len(ips) = 0
    \/ (Len(ips) = 1 /\ ips[1] = PlaceholderIp)

\* Faulty variant: an empty allow-list lets every location through.
myLocation_EmptyAllowsAll(location) ==
    \/ Locations = <<>>
    \/ \E j \in 1..Len(Locations) : Locations[j] = location

\* myLocation(): the location is one of b.Config.Locations.
myLocation(location) == \E j \in 1..Len(Locations) : Locations[j] = location

\* `if Location != "" { if !b.myLocation(Location) && !b.Config.IgnoreLocation {`
Unmanaged(a) ==
    /\ a.Location # ""
    /\ ~myLocation(a.Location)
    /\ ~IgnoreLocation

\* Faulty variant: the configure case stands before the execute case.
SelectAction_ConfigureFirst(a) ==
    IF a.Configure THEN "configure"
    ELSE IF a.Execute THEN "execute"
    ELSE "done"

\* `switch { case msg.Asset.Execute: ... case msg.Asset.Configure: ... default: ... }`
SelectAction(a) ==
    IF a.Execute THEN "execute"
    ELSE IF a.Configure THEN "configure"
    ELSE "done"

\* Faulty variant: dry-run does not return early.
DryRunReturns_Never(dry) == FALSE

\* `if b.Config.DryRun { ...; return nil }`
DryRunReturns(dry) == dry

ExecuteMetric(err) == IF err # NoErr THEN "execute_fail" ELSE "execute_success"

ConfigureMetric(err) == IF err # NoErr THEN "configure_fail" ELSE "configure_success"

\* metrics.IncrCounter(name, 1)
IncrCounter(m, name) == [m EXCEPT ![name] = @ + 1]

\* loginInfo.ActiveIpAddress after a Login() that succeeded through ip: the
\* return for an inactive controller that is the asset's only IP leaves the
\* field at its zero value.
ActiveIpAddress(ip, inactive) == IF inactive THEN "" ELSE ip

\* The fields configureAsset copies from the handle into the asset.
Identified(a, type) ==
    [a EXCEPT !.Type = IF type = "bmc" THEN "server" ELSE "chassis",
              !.Model = type \o " model",
              !.Vendor = type \o " vendor",
              !.Serial = type \o " serial"]

NewAsset(ips, location, execute, configure) ==
    [IPAddresses |-> ips, Location |-> location, Execute |-> execute,
     Configure |-> configure, IPAddress |-> "", Type |-> "", Model |-> "",
     Vendor |-> "", Serial |-> ""]

HandlerIdle ==
    /\ asset = NewAsset(<<>>, "", FALSE, FALSE)
    /\ Locations = <<>>
    /\ IgnoreLocation = FALSE
    /\ DryRun = FALSE
    /\ hpc = "idle"
    /\ metrics = [n \in MetricNames |-> 0]
    /\ client = Nil
    /\ clientOpen = FALSE
    /\ returned = NotReturned
    /\ hcalls = <<>>
    /\ sawBInterrupt = FALSE

HandlerInit ==
    /\ bInterrupt \in BOOLEAN
    /\ \E ips \in AssetIpLists, location \in LocationNames \cup {""},
          execute \in BOOLEAN, configure \in BOOLEAN :
          asset = NewAsset(ips, location, execute, configure)
    /\ Locations \in SeqsUpTo(LocationNames, MaxLocs)
    /\ IgnoreLocation \in BOOLEAN
    /\ DryRun \in BOOLEAN
    /\ hpc = "start"
    /\ metrics = [n \in MetricNames |-> 0]
    /\ client = Nil
    /\ clientOpen = FALSE
    /\ returned = NotReturned
    /\ hcalls = <<>>
    /\ sawBInterrupt = FALSE

\* msgHandler from its entry to the switch on the requested action.
MsgHandlerEnter ==
    /\ hpc = "start"
    /\ \E seen \in BInterruptReads :
         /\ sawBInterrupt' = seen
         /\ IF seen
            THEN /\ hpc' = "done"
                 /\ UNCHANGED metrics
            ELSE IF NoIpInfo(asset.IPAddresses)
            THEN /\ metrics' = IncrCounter(IncrCounter(metrics, "asset_recvd"),
                                           "asset_recvd_noip")
                 /\ hpc' = "done"
            ELSE IF Unmanaged(asset)
            THEN /\ metrics' = IncrCounter(IncrCounter(metrics, "asset_recvd"),
                                           "asset_recvd_location_unmanaged")
                 /\ hpc' = "done"
            ELSE /\ metrics' = IncrCounter(metrics, "asset_recvd")
                 /\ hpc' = SelectAction(asset)
    /\ UNCHANGED <<bInterrupt, asset, Locations, IgnoreLocation, DryRun, client,
                   clientOpen, returned, hcalls>>
    /\ UNCHANGED <<ivars, lvars, svars, avars, rvars>>

\* `case msg.Asset.Execute:` the call of executeCommand and its metric.
MsgHandlerExecute ==
    /\ hpc = "execute"
    /\ \E err \in {NoErr, ErrExecute} :
         /\ hcalls' = Append(hcalls, "executeCommand")
         /\ metrics' = IncrCounter(metrics, ExecuteMetric(err))
    /\ hpc' = "done"
    /\ UNCHANGED <<bInterrupt, asset, Locations, IgnoreLocation, DryRun, client,
                   clientOpen, returned>>
    /\ UNCHANGED sawBInterrupt
    /\ UNCHANGED <<ivars, lvars, svars, avars, rvars>>

\* configureAsset returns err to msgHandler, which counts the outcome.
ConfigureReturns(err) ==
    /\ returned' = err
    /\ metrics' = IncrCounter(metrics, ConfigureMetric(err))
    /\ hpc' = "done"

\* `case msg.Asset.Configure:` configureAsset from its entry to the return
\* of Login().
ConfigureAssetEnter ==
    /\ hpc = "configure"
    /\ IF DryRunReturns(DryRun)
       THEN /\ ConfigureReturns(NoErr)
            /\ hcalls' = Append(hcalls, "configureAsset")
            /\ UNCHANGED <<asset, client, clientOpen>>
       ELSE \E type \in ClientTypes \cup {Nil},
               ip \in {asset.IPAddresses[j] : j \in 1..Len(asset.IPAddresses)},
               inactive \in BOOLEAN :
              \* only a chassis controller answers IsActive(), and Login
              \* returns on an inactive one only when it is the single IP
              /\ inactive => (type = "chassis" /\ Len(asset.IPAddresses) = 1)
              /\ hcalls' = hcalls \o <<"configureAsset", "Login">>
              /\ IF type = Nil
                 THEN /\ ConfigureReturns(ErrAllFailed)
                      /\ UNCHANGED <<asset, client, clientOpen>>
                 ELSE /\ client' = type
                      /\ clientOpen' = TRUE
                      /\ asset' = [asset EXCEPT
                                  !.IPAddress = ActiveIpAddress(ip, inactive)]
                      /\ hpc' = "connected"
                      /\ UNCHANGED <<returned, metrics>>
    /\ UNCHANGED <<bInterrupt, Locations, IgnoreLocation, DryRun, sawBInterrupt>>
    /\ UNCHANGED <<ivars, lvars, svars, avars, rvars>>

\* configureAsset from the type switch to its return.
ConfigureAssetApply ==
    /\ hpc = "connected"
    /\ IF client \in {"bmc", "chassis"}
       THEN \E rendered \in RenderedConfigs :
              /\ asset' = Identified(asset, client)
              /\ IF rendered = Nil
                 THEN /\ hcalls' = Append(hcalls, "LoadConfigResources")
                      /\ ConfigureReturns(ErrNoConfig)
                      /\ UNCHANGED clientOpen
                 ELSE /\ hcalls' = hcalls \o <<"LoadConfigResources">>
                                     \o (IF client = "chassis" /\ rendered = "withSetup"
                                         THEN <<"SetupApply">> ELSE <<>>)
                                     \o <<"Apply", "Close">>
                      /\ clientOpen' = FALSE
                      /\ ConfigureReturns(NoErr)
       ELSE /\ ConfigureReturns(ErrUnknownAsset)
            /\ UNCHANGED <<asset, clientOpen, hcalls>>
    /\ UNCHANGED <<bInterrupt, Locations, IgnoreLocation, DryRun, client,
                   sawBInterrupt>>
    /\ UNCHANGED <<ivars, lvars, svars, avars, rvars>>

HandlerNext ==
    \/ MsgHandlerEnter
    \/ MsgHandlerExecute
    \/ ConfigureAssetEnter
    \/ ConfigureAssetApply

----------------------------------------------------------------------------
(* butler: Runner and the worker pool                                      *)
(* The messages Runner dispatches are configure requests for assets that   *)
(* pass the checks of msgHandler and whose handle has a configuration; the *)
(* pool is the workerpool library, modelled by its contract: at most       *)
(* ButlersToSpawn tasks held by workers, the others in a FIFO waiting      *)
(* queue, Stop() abandoning the queue and waiting for the workers,         *)
(* StopWait() waiting for the queue as well.                               *)

\* `butlerChan = make(chan butler.Msg, 2)`
ButlerChanCap == 2

Msgs == 1..MaxMsgs

\* The tasks a worker holds: handed over, or executing msgHandler.
BusyTasks == {m \in Msgs : task[m] \in {"assigned", "running", "connected"}}

\* The tasks whose msgHandler call has passed its interrupt check and has
\* not returned.
Executing == {m \in Msgs : task[m] \in {"running", "connected"}}

\* Faulty variant: the pool starts a worker for every task.
WorkerFree_Always(busy, butlers) == TRUE

\* workerpool.New(b.Config.ButlersToSpawn): the pool runs at most that many
\* workers, so a task is handed over only while fewer are busy.
WorkerFree(busy, butlers) == Cardinality(busy) < butlers

\* Faulty variant: Runner submits whatever the size of the waiting queue.
SubmitAllowed_Always(waiting, butlers) == TRUE

\* `for b.WorkerPool.WaitingQueueSize() > b.Config.ButlersToSpawn { time.Sleep(...) }`
\* is left when the size is not above the butler count.
SubmitAllowed(waiting, butlers) == ~(waiting > butlers)

\* Faulty variant: the pool's stop does not wait for the workers.
PoolStopped_NoWait(busy, queue) == TRUE

\* Faulty variant: Stop() waits for the tasks it has abandoned as well.
PoolStopped_WaitsForAbandoned(busy, queue) ==
    busy = {} /\ queue = <<>> /\ abandoned = {}

\* Faulty variant: the pool's stop waits for the waiting queue only.
PoolStopped_QueueOnly(busy, queue) == queue = <<>>

\* Stop() and StopWait() return when no worker holds a task and the waiting
\* queue is empty (Stop() has emptied it itself).
PoolStopped(busy, queue) == busy = {} /\ queue = <<>>

\* Faulty variant: a failed login is not returned.
TaskAfterLogin_IgnoresErr(err) == "connected"

\* `client, loginInfo, err := bmcConn.Login(); if err != nil { return err }`
TaskAfterLogin(err) == IF err # NoErr THEN "finished" ELSE "connected"

hrest == <<asset, Locations, IgnoreLocation, DryRun, hpc, client, clientOpen,
           returned, hcalls, sawBInterrupt>>

RunnerIdle ==
    /\ ButlersToSpawn = 0
    /\ butlerChan = <<>>
    /\ sent = 0
    /\ chanClosed = FALSE
    /\ rpc = "idle"
    /\ msg = 0
    /\ waitingQueue = <<>>
    /\ task = [m \in Msgs |-> "none"]
    /\ outcome = [m \in Msgs |-> "none"]
    /\ applied = {}
    /\ abandoned = {}
    /\ inFlightAtStop = {}

\* Runner has created the pool and stands at its select.
RunnerInit ==
    /\ ButlersToSpawn \in 1..MaxButlers
    /\ butlerChan = <<>>
    /\ sent = 0
    /\ chanClosed = FALSE
    /\ rpc = "loop"
    /\ msg = 0
    /\ waitingQueue = <<>>
    /\ task = [m \in Msgs |-> "none"]
    /\ outcome = [m \in Msgs |-> "none"]
    /\ applied = {}
    /\ abandoned = {}
    /\ inFlightAtStop = {}

\* The inventory sends the next message on ButlerChan.
InventorySend ==
    /\ ~chanClosed
    /\ sent < MaxMsgs
    /\ Len(butlerChan) < ButlerChanCap
    /\ butlerChan' = Append(butlerChan, sent + 1)
    /\ sent' = sent + 1
    /\ UNCHANGED <<ButlersToSpawn, chanClosed, rpc, msg, waitingQueue, task,
                   outcome, applied, abandoned, inFlightAtStop>>
    /\ UNCHANGED <<ivars, lvars, svars, avars, bInterrupt, hvars>>

\* `close(butlerChan)`
CloseButlerChan ==
    /\ ~chanClosed
    /\ chanClosed' = TRUE
    /\ UNCHANGED <<ButlersToSpawn, butlerChan, sent, rpc, msg, waitingQueue,
                   task, outcome, applied, abandoned, inFlightAtStop>>
    /\ UNCHANGED <<ivars, lvars, svars, avars, bInterrupt, hvars>>

\* `case msg, ok := <-b.ButlerChan:` with ok true.  The select may take this
\* case also when StopChan is closed.
RunnerReceive ==
    /\ rpc = "loop"
    /\ butlerChan # <<>>
    /\ msg' = Head(butlerChan)
    /\ butlerChan' = Tail(butlerChan)
    /\ rpc' = "throttle"
    /\ UNCHANGED <<ButlersToSpawn, sent, chanClosed, waitingQueue, task,
                   outcome, applied, abandoned, inFlightAtStop>>
    /\ UNCHANGED <<ivars, lvars, svars, avars, bInterrupt, hvars>>

\* `case msg, ok := <-b.ButlerChan:` with ok false: break loop, then
\* StopWait().
RunnerChanClosed ==
    /\ rpc = "loop"
    /\ butlerChan = <<>>
    /\ chanClosed
    /\ rpc' = "stopwait"
    /\ UNCHANGED <<ButlersToSpawn, butlerChan, sent, chanClosed, msg,
                   waitingQueue, task, outcome, applied, abandoned,
                   inFlightAtStop>>
    /\ UNCHANGED <<ivars, lvars, svars, avars, bInterrupt, hvars>>

\* The wait loop is left and the message submitted: the pool hands the task
\* to a worker when one is free and nothing waits, else queues it.
RunnerSubmit ==
    /\ rpc = "throttle"
    /\ SubmitAllowed(Len(waitingQueue), ButlersToSpawn)
    /\ IF waitingQueue = <<>> /\ WorkerFree(BusyTasks, ButlersToSpawn)
       THEN /\ task' = [task EXCEPT ![msg] = "assigned"]
            /\ UNCHANGED waitingQueue
       ELSE /\ waitingQueue' = Append(waitingQueue, msg)
            /\ UNCHANGED task
    /\ msg' = 0
    /\ rpc' = "loop"
    /\ UNCHANGED <<ButlersToSpawn, butlerChan, sent, chanClosed, outcome,
                   applied, abandoned, inFlightAtStop>>
    /\ UNCHANGED <<ivars, lvars, svars, avars, bInterrupt, hvars>>

\* `case <-b.StopChan:` the flag is set and Stop() called: the waiting queue
\* is abandoned and Runner blocks until the workers are done.
RunnerStop ==
    /\ rpc = "loop"
    /\ stopClosed
    /\ bInterrupt' = TRUE
    /\ abandoned' = {waitingQueue[j] : j \in 1..Len(waitingQueue)}
    /\ inFlightAtStop' = Executing
    /\ waitingQueue' = <<>>
    /\ rpc' = "stopping"
    /\ UNCHANGED <<ButlersToSpawn, butlerChan, sent, chanClosed, msg, task,
                   outcome, applied>>
    /\ UNCHANGED <<ivars, lvars, svars, avars, hvars>>

\* Stop() or StopWait() returns; after Stop() the StopWait() of line 92
\* finds the pool stopped.  Runner returns and SyncWG.Done() runs.
RunnerReturn ==
    /\ rpc \in {"stopping", "stopwait"}
    /\ PoolStopped(BusyTasks, waitingQueue)
    /\ rpc' = "done"
    /\ UNCHANGED <<ButlersToSpawn, butlerChan, sent, chanClosed, msg,
                   waitingQueue, task, outcome, applied, abandoned,
                   inFlightAtStop>>
    /\ UNCHANGED <<ivars, lvars, svars, avars, bInterrupt, hvars>>

\* A free worker takes the task at the head of the waiting queue.
PoolDispatch ==
    /\ waitingQueue # <<>>
    /\ WorkerFree(BusyTasks, ButlersToSpawn)
    /\ task' = [task EXCEPT ![Head(waitingQueue)] = "assigned"]
    /\ waitingQueue' = Tail(waitingQueue)
    /\ UNCHANGED <<ButlersToSpawn, butlerChan, sent, chanClosed, rpc, msg,
                   outcome, applied, abandoned, inFlightAtStop>>
    /\ UNCHANGED <<ivars, lvars, svars, avars, bInterrupt, hvars>>

\* The worker enters msgHandler(m): the interrupt check and asset_recvd.
TaskStart(m) ==
    /\ task[m] = "assigned"
    /\ \E seen \in BInterruptReads :
         IF seen
         THEN /\ task' = [task EXCEPT ![m] = "finished"]
              /\ outcome' = [outcome EXCEPT ![m] = "skipped"]
              /\ UNCHANGED metrics
         ELSE /\ task' = [task EXCEPT ![m] = "running"]
              /\ metrics' = IncrCounter(metrics, "asset_recvd")
              /\ UNCHANGED outcome
    /\ UNCHANGED <<ButlersToSpawn, butlerChan, sent, chanClosed, rpc, msg,
                   waitingQueue, applied, abandoned, inFlightAtStop>>
    /\ UNCHANGED <<ivars, lvars, svars, avars, bInterrupt, hrest>>

\* configureAsset for m up to the return of Login(); on an error msgHandler
\* counts configure_fail and returns.
TaskLogin(m) ==
    /\ task[m] = "running"
    /\ \E err \in {NoErr, ErrAllFailed} :
         /\ task' = [task EXCEPT ![m] = TaskAfterLogin(err)]
         /\ outcome' = [outcome EXCEPT
                          ![m] = IF err # NoErr THEN "login_failed" ELSE "logged_in"]
         /\ metrics' = IF err # NoErr
                       THEN IncrCounter(metrics, ConfigureMetric(err))
                       ELSE metrics
    /\ UNCHANGED <<ButlersToSpawn, butlerChan, sent, chanClosed, rpc, msg,
                   waitingQueue, applied, abandoned, inFlightAtStop>>
    /\ UNCHANGED <<ivars, lvars, svars, avars, bInterrupt, hrest>>

\* configureAsset for m from the type switch on: Apply(), Close(), return
\* nil; msgHandler counts configure_success.
TaskApply(m) ==
    /\ task[m] = "connected"
    /\ applied' = applied \cup {m}
    /\ task' = [task EXCEPT ![m] = "finished"]
    /\ metrics' = IncrCounter(metrics, ConfigureMetric(NoErr))
    /\ UNCHANGED <<ButlersToSpawn, butlerChan, sent, chanClosed, rpc, msg,
                   waitingQueue, outcome, abandoned, inFlightAtStop>>
    /\ UNCHANGED <<ivars, lvars, svars, avars, bInterrupt, hrest>>

RunnerNext ==
    \/ InventorySend
    \/ CloseButlerChan
    \/ StopSignal
    \/ RunnerReceive
    \/ RunnerChanClosed
    \/ RunnerSubmit
    \/ RunnerStop
    \/ RunnerReturn
    \/ PoolDispatch
    \/ \E m \in Msgs : TaskStart(m)
    \/ \E m \in Msgs : TaskLogin(m)
    \/ \E m \in Msgs : TaskApply(m)

----------------------------------------------------------------------------
(* inventory: Dora.AssetIter and Dora.AssetIterBySerial                    *)

\* `inventoryChan = make(chan []asset.Asset, 5)`
InventoryChanCap == 5

\* The values AssetRetrieve() gives FilterAssetType.
AssetTypeLists ==
    {<<"chassis">>, <<"blade", "discrete">>, <<"chassis", "blade", "discrete">>}

\* What a query of the inventory comes to: http.Get fails, the status is not
\* 200, the body cannot be read, the body is not a DoraAsset document, or a
\* page of assets is decoded.
DoraAnswers == {"unreachable", "non200", "unreadable", "undecodable", "page"}

NoAnswer == "none"

\* The page was decoded but setLocation() returned an error for it.
NoLocation == "nolocation"

\* The same for the scanned_ports query of setLocation().
LocationAnswers == {"unreachable", "non200", "undecodable", "located"}

\* setLocation(): when http.Get fails resp is nil and the log statement
\* reads resp.StatusCode, a nil dereference; on a status other than 200 it
\* returns err, which is nil there; a body that cannot be decoded is
\* returned as an error.
setLocation(answer) ==
    CASE answer = "unreachable" -> "panic"
      [] answer = "undecodable" -> "err"
      [] OTHER -> NoErr

\* AssetIterBySerial does not test the status: the body of such a response
\* is decoded like any other, and either fails to decode or decodes.
SerialView(answer) ==
    IF answer = "non200" THEN {"undecodable", "page"} ELSE {answer}

InventoryIdle ==
    /\ FilterAssetType = <<>>
    /\ bySerial = FALSE
    /\ ipc = "idle"
    /\ tidx = 0
    /\ page = 0
    /\ assetsChan = <<>>
    /\ assetsChanClosed = FALSE
    /\ lastAnswer = NoAnswer

\* The iterator AssetRetrieve() returned has been started and stands at the
\* first query of the first asset type.
InventoryInit ==
    /\ FilterAssetType \in AssetTypeLists
    /\ bySerial \in BOOLEAN
    /\ ipc = "query"
    /\ tidx = 1
    /\ page = 1
    /\ assetsChan = <<>>
    /\ assetsChanClosed = FALSE
    /\ lastAnswer = NoAnswer

\* log...Fatal(): logrus logs and calls os.Exit(1); deferred calls do not
\* run.
Fatal ==
    /\ ipc' = "exited"
    /\ UNCHANGED <<tidx, page, assetsChan, assetsChanClosed>>

\* A nil dereference: the goroutine panics and the process ends.
Panics ==
    /\ ipc' = "panicked"
    /\ UNCHANGED <<tidx, page, assetsChan, assetsChanClosed>>

\* The iterator returns: `defer close(d.AssetsChan)` runs.
IterReturns ==
    /\ ipc' = "done"
    /\ assetsChanClosed' = TRUE
    /\ UNCHANGED <<tidx, page>>

\* The loop over FilterAssetType goes to its next element, or ends.
NextAssetType ==
    IF tidx + 1 > Len(FilterAssetType)
    THEN IterReturns
    ELSE /\ tidx' = tidx + 1
         /\ page' = 1
         /\ UNCHANGED <<ipc, assetsChanClosed>>

\* AssetIter: one pass through the body of the page loop `for { ... }`.
AssetIter ==
    /\ ipc = "query"
    /\ ~bySerial
    /\ \E answer \in DoraAnswers, usable \in 0..MaxAssets,
          loc \in LocationAnswers, more \in BOOLEAN :
         /\ lastAnswer' = IF answer = "page" /\ setLocation(loc) = "err"
                          THEN NoLocation ELSE answer
         /\ IF answer # "page"
            THEN Fatal
            ELSE CASE setLocation(loc) = "panic" -> Panics
                   [] setLocation(loc) = "err" ->
                        \* `continue`: the same queryURL is fetched again
                        UNCHANGED <<ipc, tidx, page, assetsChan, assetsChanClosed>>
                   [] OTHER ->
                        /\ Len(assetsChan) < InventoryChanCap
                        /\ assetsChan' = Append(assetsChan, usable)
                        /\ IF more /\ page < MaxPages
                           THEN /\ page' = page + 1
                                /\ UNCHANGED <<ipc, tidx, assetsChanClosed>>
                           ELSE NextAssetType
    /\ UNCHANGED <<FilterAssetType, bySerial>>
    /\ UNCHANGED <<lvars, svars, avars, dvars>>

\* AssetIterBySerial: one pass through the body of the asset-type loop.
AssetIterBySerial ==
    /\ ipc = "query"
    /\ bySerial
    /\ \E answer \in DoraAnswers, items \in 0..MaxAssets, usable \in 0..MaxAssets,
          loc \in LocationAnswers :
         /\ usable <= items
         /\ lastAnswer' = answer
         /\ \E seen \in SerialView(answer) :
              IF seen # "page"
              THEN Fatal
              ELSE IF items = 0
              THEN /\ NextAssetType
                   /\ UNCHANGED assetsChan
              ELSE CASE setLocation(loc) = "panic" -> Panics
                     [] setLocation(loc) = "err" ->
                          /\ IterReturns
                          /\ UNCHANGED assetsChan
                     [] OTHER ->
                          /\ Len(assetsChan) < InventoryChanCap
                          /\ assetsChan' = Append(assetsChan, usable)
                          /\ NextAssetType
    /\ UNCHANGED <<FilterAssetType, bySerial>>
    /\ UNCHANGED <<lvars, svars, avars, dvars>>

\* The command layer takes a batch from the channel.
InventoryReceive ==
    /\ ipc \notin {"exited", "panicked"}
    /\ assetsChan # <<>>
    /\ assetsChan' = Tail(assetsChan)
    /\ UNCHANGED <<FilterAssetType, bySerial, ipc, tidx, page, assetsChanClosed,
                   lastAnswer>>
    /\ UNCHANGED <<lvars, svars, avars, dvars>>

InventoryNext == AssetIter \/ AssetIterBySerial \/ InventoryReceive

----------------------------------------------------------------------------
(* Specifications, one per component.                                      *)

LoginIdle ==
    /\ IpAddresses = <<>>
    /\ Credentials = <<>>
    /\ CheckCredential = FALSE
    /\ Retries = 0
    /\ lpc = "idle"
    /\ lpos = [c |-> 0, i |-> 0, t |-> 0]
    /\ loginInfo = EmptyLoginInfo
    /\ loginConn = Nil
    /\ loginErr = NoErr
    /\ lastAttempt = NoAttempt
    /\ probed = {}
    /\ sawError = FALSE
    /\ inactiveIps = {}

DispatchIdle == bInterrupt = FALSE /\ HandlerIdle /\ RunnerIdle

LoginSpecInit == LoginInit /\ ScanIdle /\ ApplyIdle /\ DispatchIdle /\ InventoryIdle
LoginSpec == LoginSpecInit /\ [][LoginNext]_vars

ScanSpecInit == ScanInit /\ LoginIdle /\ ApplyIdle /\ DispatchIdle /\ InventoryIdle
ScanSpec == ScanSpecInit /\ [][ScanNext]_vars

ApplySpecInit == ApplyInit /\ LoginIdle /\ ScanIdle /\ DispatchIdle /\ InventoryIdle
ApplySpec == ApplySpecInit /\ [][ApplyNext]_vars

HandlerSpecInit == HandlerInit /\ RunnerIdle /\ LoginIdle /\ ScanIdle /\ ApplyIdle /\ InventoryIdle
HandlerSpec == HandlerSpecInit /\ [][HandlerNext]_vars

RunnerSpecInit ==
    /\ RunnerInit
    /\ bInterrupt = FALSE
    /\ HandlerIdle
    /\ LoginIdle
    /\ ScanIdle
    /\ ApplyIdle
    /\ InventoryIdle
RunnerSpec == RunnerSpecInit /\ [][RunnerNext]_vars

\* Runner under fair scheduling: the goroutines of Runner and of the pool
\* take the steps they can take, every started handler runs to its return,
\* and the select of Runner, which picks at random among its ready cases,
\* does not pass over the StopChan case forever.
RunnerFairness ==
    /\ WF_vars(RunnerSubmit)
    /\ WF_vars(RunnerChanClosed)
    /\ SF_vars(RunnerStop)
    /\ WF_vars(RunnerReturn)
    /\ WF_vars(PoolDispatch)
    /\ \A m \in Msgs :
          WF_vars(TaskStart(m)) /\ WF_vars(TaskLogin(m)) /\ WF_vars(TaskApply(m))
RunnerLiveSpec == RunnerSpecInit /\ [][RunnerNext]_vars /\ RunnerFairness

InventorySpecInit ==
    /\ InventoryInit
    /\ LoginIdle
    /\ ScanIdle
    /\ ApplyIdle
    /\ DispatchIdle
InventorySpec == InventorySpecInit /\ [][InventoryNext]_vars

----------------------------------------------------------------------------
(* Properties of Login.                                                    *)

LoginFailed == lpc = "done" /\ loginErr = ErrAllFailed
LoginSucceeded == lpc = "done" /\ loginErr = NoErr

\* C1 (as stated): Login returns the "all attempts failed" error only after
\* every (credential, IP) pair of the credential list and the IP list has
\* been handed to the prober at least once.
C1_EveryPairBeforeFailure ==
    LoginFailed =>
        \A c \in 1..Len(Credentials), i \in 1..Len(IpAddresses) : <<c, i>> \in probed

\* C1 (amended): Login returns the "all attempts failed" error only after
\* every pair of a credential and a non-empty entry of the IP list has been
\* handed to the prober at least once; empty-string entries are skipped.
C1_EveryNonEmptyPairBeforeFailure ==
    LoginFailed =>
        \A c \in 1..Len(Credentials), i \in 1..Len(IpAddresses) :
            IpAddresses[i] # "" => <<c, i>> \in probed

C1_Witness ==
    /\ LoginFailed
    /\ Len(Credentials) = 2
    /\ Len(IpAddresses) = 2
    /\ \A i \in 1..2 : IpAddresses[i] # ""
    /\ inactiveIps # {}
    /\ Cardinality(probed) = 4

\* The latest attempt's probe and credential check passed.
LastPassed ==
    /\ lastAttempt.c # 0
    /\ lastAttempt.conn # Nil
    /\ lastAttempt.err = NoErr

\* C2 (as stated): at the first attempt whose probe and credential check
\* pass Login returns successfully: no prober call follows it and the record
\* names that attempt's credential as the working credential.
C2_ReturnsAtFirstPass ==
    LastPassed =>
        /\ LoginSucceeded
        /\ loginInfo.WorkingCredentials = Credentials[lastAttempt.c]

\* The latest attempt passed and its controller is active or is the only IP.
LastAccepted ==
    /\ LastPassed
    /\ (~lastAttempt.ipInactive \/ Len(IpAddresses) = 1)

\* C2 (amended): Login returns successfully exactly at the first attempt
\* whose probe and credential check pass and whose controller is active or
\* is the asset's only IP: no prober call follows it, the connection of that
\* attempt is returned and the record names its credential as working.  An
\* attempt that passes on an inactive controller of a multi-IP asset does
\* not end Login.
C2_ReturnsAtFirstAccepted ==
    /\ LastAccepted =>
          /\ LoginSucceeded
          /\ loginConn = lastAttempt.conn
          /\ loginInfo.WorkingCredentials = Credentials[lastAttempt.c]
    /\ LoginSucceeded => LastAccepted
    /\ (LastPassed /\ ~LastAccepted) => lpc # "done" \/ LoginFailed

C2_Witness ==
    /\ LoginSucceeded
    /\ sawError
    /\ inactiveIps # {}
    /\ lastAttempt.c = 2
    /\ loginInfo.Attempts >= 3

\* The chassis of C3: two IPs, the credential check passes wherever it is
\* made, the first controller answers inactive and the second is active.
C3_Scenario ==
    /\ lpc = "done"
    /\ Len(IpAddresses) = 2
    /\ \A i \in 1..2 : IpAddresses[i] # ""
    /\ Credentials # <<>>
    /\ CheckCredential
    /\ ~sawError
    /\ inactiveIps = {1}

\* C3: for a chassis with two IPs whose credential check passes on both but
\* only the second controller is active, Login succeeds with ActiveIpAddress
\* the second IP and FailedCredentials holds nothing.
C3_SecondIpActive ==
    C3_Scenario =>
        /\ LoginSucceeded
        /\ loginConn # Nil
        /\ loginInfo.ActiveIpAddress = IpAddresses[2]
        /\ loginInfo.FailedCredentials = <<>>

C3_Witness ==
    /\ C3_Scenario
    /\ IpAddresses[1] # IpAddresses[2]
    /\ loginConn = "chassis"
    /\ lastAttempt.i = 2
    /\ loginInfo.Attempts = 2

\* C4: with exactly one IP, a credential check that passes on a controller
\* that reports itself inactive makes Login return a non-nil handle and no
\* error.
C4_SingleIpLastResort ==
    (Len(IpAddresses) = 1 /\ lastAttempt.c # 0 /\ lastAttempt.ipInactive) =>
        /\ lpc = "done"
        /\ loginConn # Nil
        /\ loginErr = NoErr

C4_Witness ==
    /\ Len(IpAddresses) = 1
    /\ lastAttempt.ipInactive
    /\ lpc = "done"
    /\ sawError

\* Attempt a stands before attempt b in the order credential, IP, retry.
LexBefore(a, b) ==
    \/ a.c < b.c
    \/ (a.c = b.c /\ a.i < b.i)
    \/ (a.c = b.c /\ a.i = b.i /\ a.t < b.t)

\* C21: Login iterates credential as the outer loop, IP as the middle loop
\* and retry attempt as the inner loop: every attempt with credential c
\* against every IP happens before the first attempt with credential c+1,
\* and all attempts against one IP with a credential happen before that
\* credential is tried on the next IP.
C21_CredentialIpRetryOrder ==
    /\ [][lastAttempt' # lastAttempt => LexBefore(lastAttempt, lastAttempt')]_vars
    /\ [](lastAttempt.c # 0 =>
             /\ \A c \in 1..(lastAttempt.c - 1), i \in 1..Len(IpAddresses) :
                   IpAddresses[i] # "" => <<c, i>> \in probed
             /\ \A i \in 1..(lastAttempt.i - 1) :
                   IpAddresses[i] # "" => <<lastAttempt.c, i>> \in probed)

C21_Witness ==
    /\ lastAttempt.c = 2
    /\ lastAttempt.i = 2
    /\ lastAttempt.t = 1
    /\ Cardinality(probed) = 4
    /\ Len(loginInfo.FailedCredentials) >= 7

\* The errors of attemptLogin that come from CheckCredentials().
CredentialCheckErrors == {ErrBmcLogin, ErrChassisLogin}

\* C22: a login attempt whose discovery probe fails outright (host
\* unreachable or vendor unknown) adds nothing to the failed-credentials
\* list; a credential is appended to FailedCredentials only when its
\* explicit credential check fails.
C22_OnlyCheckFailuresRecorded ==
    [][loginInfo'.FailedCredentials # loginInfo.FailedCredentials
          => lastAttempt'.err \in CredentialCheckErrors]_vars

\* C32: whenever Login returns without error, ActiveIpAddress of the returned
\* record is not empty and is the entry of the IP list on which the returned
\* handle was obtained, the return for an inactive controller that is the
\* asset's only IP included.
C32_ActiveIpOnSuccess ==
    (lpc = "done" /\ loginErr = NoErr) =>
        /\ loginInfo.ActiveIpAddress # ""
        /\ loginInfo.ActiveIpAddress = IpAddresses[lastAttempt.i]

\* Retries as Login() uses it: 0 stands for 1.
EffectiveRetries == IF Retries = 0 THEN 1 ELSE Retries

\* C33 (as stated): with Retries = r (0 treated as 1) Login makes at most r
\* prober calls per (credential, IP) pair, and Attempts never exceeds
\* credentials x IPs x r.
C33_AtMostRetriesCalls ==
    /\ lastAttempt.c # 0 => lastAttempt.t + 1 <= EffectiveRetries
    /\ loginInfo.Attempts
          <= Len(Credentials) * Len(IpAddresses) * EffectiveRetries

\* C33 (amended): with Retries = r (0 treated as 1) Login makes at most
\* r + 1 prober calls per (credential, IP) pair, the first attempt and r
\* retries; Attempts goes up by exactly one with every prober call and with
\* nothing else, and never exceeds credentials x IPs x (r + 1).
C33_AtMostRetriesPlusOneCalls ==
    /\ [](/\ lastAttempt.c # 0 => lastAttempt.t + 1 <= EffectiveRetries + 1
          /\ loginInfo.Attempts
                <= Len(Credentials) * Len(IpAddresses) * (EffectiveRetries + 1))
    /\ [][/\ lpc = "loop" => loginInfo'.Attempts = loginInfo.Attempts + 1
          /\ lpc # "loop" => loginInfo'.Attempts = loginInfo.Attempts
          /\ lastAttempt' # lastAttempt => LexBefore(lastAttempt, lastAttempt')]_vars

C33_Witness ==
    /\ lpc = "done"
    /\ loginErr = ErrAllFailed
    /\ Len(Credentials) = 2
    /\ Len(IpAddresses) = 2
    /\ loginInfo.Attempts = 2 * 2 * (EffectiveRetries + 1)

----------------------------------------------------------------------------
(* Properties of ScanAndConnect.                                           *)

CatalogIndex(id) == Min({j \in 1..Len(CatalogOrder) : CatalogOrder[j] = id})

\* The catalog without one probe, the other probes in catalog order.
RECURSIVE Without(_, _)
Without(ord, id) ==
    IF ord = <<>> THEN <<>>
    ELSE IF Head(ord) = id THEN Without(Tail(ord), id)
    ELSE <<Head(ord)>> \o Without(Tail(ord), id)

ProbingEntered == order # <<>>

\* C7 (as stated): the effective try-order for a hint is the hinted probe
\* first, followed by the remaining probes in their original catalog order.
C7_HintMovedToFront ==
    (ProbingEntered /\ Hint \in ProbeIds) =>
        order = <<Hint>> \o Without(CatalogOrder, Hint)

\* C7 (amended): the effective try-order for a hint is the catalog order
\* with the hinted probe and the first probe exchanged: the hinted probe is
\* first, the probe that was first takes the hinted probe's place, every
\* other probe keeps its place ([A,B,C] with hint C gives [C,B,A]); a hint
\* that names no catalog probe, or no hint, leaves the catalog order.
C7_HintSwappedWithFirst ==
    ProbingEntered =>
        /\ Len(order) = Len(CatalogOrder)
        /\ \A j \in 1..Len(CatalogOrder) :
              order[j] = IF Hint \notin ProbeIds THEN CatalogOrder[j]
                         ELSE IF j = 1 THEN Hint
                         ELSE IF j = CatalogIndex(Hint) THEN CatalogOrder[1]
                         ELSE CatalogOrder[j]

C7_Witness ==
    /\ ProbingEntered
    /\ Hint = CatalogOrder[3]
    /\ SubSeq(order, 1, 3) = <<CatalogOrder[3], CatalogOrder[2], CatalogOrder[1]>>
    /\ Len(probeCalls) >= 3

ScanReturned == spc = "done" /\ ProbingEntered

\* Probes are called in try-order, each at most once.
CalledInOrder ==
    /\ Len(probeCalls) <= Len(order)
    /\ probeCalls = SubSeq(order, 1, Len(probeCalls))

\* C8 (as stated): probes are called strictly in the effective try-order,
\* each at most once; ScanAndConnect returns the handle of the first probe
\* that yields a non-nil handle and no error, without calling a later probe,
\* and returns the vendor-unknown error exactly when no probe yields one.
C8_FirstHandleWins ==
    ProbingEntered =>
        /\ CalledInOrder
        /\ opened # {} =>
              /\ spc = "done"
              /\ opened = {probeCalls[Len(probeCalls)]}
              /\ scanConn = probeCalls[Len(probeCalls)]
              /\ scanErr = NoErr
        /\ spc = "done" => (scanErr = ErrVendorUnknown <=> opened = {})

\* C8 (amended): probes are called strictly in the effective try-order, each
\* at most once, and none after the first probe that yields a non-nil handle
\* and no error.  If the hint callback returns an error, ScanAndConnect
\* returns that error and no handle, without calling a later probe; else it
\* returns the handle of the first probe that yields one, and returns the
\* vendor-unknown error exactly when every probe was called and none
\* yielded a handle.
C8_FirstHandleWinsUnlessHintFails ==
    ProbingEntered =>
        /\ CalledInOrder
        /\ opened # {} =>
              /\ spc = "done"
              /\ opened = {probeCalls[Len(probeCalls)]}
        /\ hintFailed =>
              /\ spc = "done"
              /\ scanConn = Nil
              /\ scanErr = ErrHintCallback
        /\ (opened # {} /\ ~hintFailed) =>
              /\ scanConn = probeCalls[Len(probeCalls)]
              /\ scanErr = NoErr
        /\ (spc = "done" /\ ~hintFailed) =>
              (scanErr = ErrVendorUnknown <=> opened = {})
        /\ (spc = "done" /\ scanErr = ErrVendorUnknown) =>
              /\ probeCalls = order
              /\ scanConn = Nil

C8_Witness ==
    /\ ScanReturned
    /\ Hint = CatalogOrder[3]
    /\ Len(probeCalls) = 4
    /\ Len(hintCalls) = 2
    /\ scanConn = CatalogOrder[4]

\* C9: when a probe succeeds and the hint callback returns an error,
\* ScanAndConnect fails with that error, returns no handle, and the handle
\* of the winning probe has been closed before ScanAndConnect returns.
C9_HandleReleasedOnHintError ==
    (ScanReturned /\ hintFailed /\ opened # {}) =>
        /\ scanErr = ErrHintCallback
        /\ scanConn = Nil
        /\ opened \subseteq closed

\* C28: within one ScanAndConnect call the hint callback is invoked at most
\* once, only for a probe that returned a non-nil handle and no error, and,
\* when a handle is returned, with the ID of the probe that gave it.
C28_HintOnceForReturnedHandle ==
    ProbingEntered =>
        /\ Len(hintCalls) <= 1
        /\ \A j \in 1..Len(hintCalls) : hintCalls[j] \in opened
        /\ (spc = "done" /\ scanConn # Nil) => hintCalls = <<scanConn>>

----------------------------------------------------------------------------
(* Properties of Apply.                                                    *)

Range(q) == {q[j] : j \in 1..Len(q)}

Count(q, n) == Cardinality({j \in 1..Len(q) : q[j] = n})

ApplyDone == apc = "done"

\* C5: a resource whose configuration section is absent is recorded in
\* neither the succeeded nor the failed list; an all-nil configuration
\* yields two empty lists, and a configuration with only an NTP section
\* yields succeeded = [ntp], failed = [].
C5_AbsentSectionUnrecorded ==
    ApplyDone =>
        /\ \A j \in 1..Len(resources) :
              (resources[j] \in KnownResources /\ ~CallsConfigure(resources[j]))
                  => resources[j] \notin (Range(success) \cup Range(failed))
        /\ config = {} => (success = <<>> /\ failed = <<>>)
        /\ (/\ config = {"Ntp"}
            /\ ~sawInterrupt
            /\ Len(calls) = 1
            /\ calls[1].err = NoErr) => (success = <<"ntp">> /\ failed = <<>>)

\* success and failed together hold exactly the first k resources.
RecordedFirst(k) ==
    \A n \in ResourceNames :
        Count(success, n) + Count(failed, n) = Count(SubSeq(resources, 1, k), n)

CatalogPos(res) == Min({j \in 1..Len(ResourceCatalog) : ResourceCatalog[j] = res})

\* C10 (as stated): within one Apply call resources are applied in the
\* catalog order user, syslog, ntp, ldap, ldap_group, license, network,
\* whatever the order of the resource list.
C10_AppliedInCatalogOrder ==
    \A p, q \in 1..Len(calls) :
        p < q => CatalogPos(calls[p].res) <= CatalogPos(calls[q].res)

\* The list Apply is given: the caller's when it is not empty, else the
\* handle's.
ListInUse == IF bResources # <<>> THEN bResources ELSE devResources

\* C10 (amended): within one Apply call resources are applied in the order
\* in which they stand in the resource list in use (the caller-supplied list
\* when it is not empty, else the list returned by Resources()); Apply does
\* not reorder that list.
C10_AppliedInListOrder ==
    apc \in {"loop", "done"} =>
        /\ \A p \in 1..Len(calls) :
              /\ calls[p].idx \in 1..Len(ListInUse)
              /\ calls[p].res = ListInUse[calls[p].idx]
        /\ \A p, q \in 1..Len(calls) : p < q => calls[p].idx < calls[q].idx
        /\ \A j \in 1..(aidx - 1) :
              CallsConfigure(ListInUse[j]) => \E p \in 1..Len(calls) : calls[p].idx = j

C10_Witness ==
    /\ ApplyDone
    /\ bResources = <<"ntp", "user">>
    /\ Len(calls) = 2
    /\ calls[1].res = "ntp"
    /\ calls[2].res = "user"

\* The b.configure calls made for resource n, and those that returned an
\* error.
CallsOf(n) == {p \in 1..Len(calls) : calls[p].res = n}

FailedCallsOf(n) == {p \in CallsOf(n) : calls[p].err # NoErr}

\* C11: a resource whose apply call returns an error does not stop Apply:
\* absent cancellation every later resource of the list is still attempted,
\* and at the end every attempted resource is in exactly one of the
\* succeeded and failed lists, in failed exactly when its apply call
\* returned an error.
C11_ErrorsRecordedNotFatal ==
    ApplyDone =>
        /\ ~sawInterrupt =>
              \A j \in 1..Len(resources) :
                  CallsConfigure(resources[j])
                      => \E p \in 1..Len(calls) : calls[p].idx = j
        /\ \A p \in 1..Len(calls) :
              Count(success, calls[p].res) + Count(failed, calls[p].res)
                  = Count(SubSeq(resources, 1, aidx - 1), calls[p].res)
        /\ \A n \in KnownResources :
              Count(failed, n) = Cardinality(FailedCallsOf(n))

\* C12: with the ldap and ldap-group sections both present the ldap_group
\* apply call is made whether or not the extra-groups lookup errors, and
\* ldap_group is recorded as failed exactly when that call returns an error,
\* as succeeded exactly when it returns none.
C12_LdapGroupRecordedByOutcome ==
    (ApplyDone /\ {"LdapGroups", "Ldap"} \subseteq config) =>
        /\ \A j \in 1..(aidx - 1) :
              resources[j] = "ldap_group"
                  => \E p \in 1..Len(calls) : calls[p].idx = j
        /\ Count(failed, "ldap_group") = Cardinality(FailedCallsOf("ldap_group"))
        /\ Count(success, "ldap_group")
              = Cardinality(CallsOf("ldap_group") \ FailedCallsOf("ldap_group"))

\* C23: when the caller supplies a non-empty resource-name list, Apply
\* attempts only resources named in that list; when the list is empty, the
\* resources attempted are exactly those returned by the handle's
\* Resources().
C23_ListChoosesResources ==
    apc \in {"loop", "done"} =>
        /\ bResources # <<>> => resources = bResources
        /\ bResources = <<>> => resources = devResources
        /\ \A p \in 1..Len(calls) : calls[p].res \in Range(resources)
        /\ Range(success) \cup Range(failed) \subseteq Range(resources)
        /\ (ApplyDone /\ ~sawInterrupt) =>
              \A n \in ResourceNames :
                  Count(success, n) + Count(failed, n) = Count(resources, n)

C23_Witness ==
    /\ ApplyDone
    /\ ~sawInterrupt
    /\ bResources = <<>>
    /\ devResources = <<"syslog", "ntp">>
    /\ Len(calls) = 2
    /\ Len(success) + Len(failed) = 2

\* This step is one check of `interrupt` at the head of the resource loop.
ChecksInterrupt == apc = "loop" /\ (aidx' # aidx \/ apc' # apc)

\* C27: once the stop signal has been broadcast (stop channel closed), an
\* Apply call in progress starts no further resource: every per-resource
\* check that happens after the broadcast sees cancellation and breaks out
\* of the loop.
C27_CheckAfterBroadcastBreaks ==
    [][(stopClosed /\ ChecksInterrupt) =>
          /\ sawInterrupt'
          /\ apc' = "done"
          /\ UNCHANGED <<calls, success, failed>>]_vars

\* C30: a resource name that is not in the catalog is skipped by Apply: no
\* apply call is made for it, it is not recorded as failed, and it is not
\* recorded as succeeded.
C30_UnknownResourceUnrecorded ==
    \A j \in 1..Len(resources) :
        resources[j] \notin KnownResources =>
            /\ \A p \in 1..Len(calls) : calls[p].res # resources[j]
            /\ resources[j] \notin Range(failed)
            /\ resources[j] \notin Range(success)

----------------------------------------------------------------------------
(* Properties of msgHandler and configureAsset.                            *)

HandlerDone == hpc = "done"

HasCall(n) == \E j \in 1..Len(hcalls) : hcalls[j] = n

\* The asset of the message has an empty address list or only the
\* placeholder address.
WithoutAddress == asset.IPAddresses \in {<<>>, <<PlaceholderIp>>}

\* C13 (as stated): for any message whose asset has an empty IP list or only
\* the placeholder address 0.0.0.0, msgHandler makes no login or execute
\* call and increments the no-IP counter exactly once.
C13_NoIpRejectedAndCounted ==
    WithoutAddress =>
        /\ ~HasCall("Login")
        /\ ~HasCall("executeCommand")
        /\ HandlerDone => metrics["asset_recvd_noip"] = 1

\* C13 (amended): for such a message msgHandler makes no login or execute
\* call; it increments the no-IP counter exactly once when its check of
\* b.interrupt does not read the flag as set, and not at all when it does
\* (it then returns before any counter).
C13_NoIpRejectedUnlessInterrupted ==
    WithoutAddress =>
        /\ ~HasCall("Login")
        /\ ~HasCall("executeCommand")
        /\ ~HasCall("configureAsset")
        /\ HandlerDone =>
              /\ metrics["asset_recvd_noip"] = (IF sawBInterrupt THEN 0 ELSE 1)
              /\ metrics["asset_recvd"] = metrics["asset_recvd_noip"]

C13_Witness ==
    /\ HandlerDone
    /\ asset.IPAddresses = <<PlaceholderIp>>
    /\ asset.Configure
    /\ ~sawBInterrupt
    /\ metrics["asset_recvd_noip"] = 1

RejectedOnLocation == metrics["asset_recvd_location_unmanaged"] > 0

InAllowList == \E j \in 1..Len(Locations) : Locations[j] = asset.Location

\* C14 (as stated): msgHandler rejects an asset on location grounds only when
\* the asset declares a location, the allow-list is non-empty and does not
\* contain that location, and the ignore-location override is not set; with
\* an empty allow-list an asset that declares a location is not rejected.
C14_RejectsOnlyOutsideNonEmptyList ==
    RejectedOnLocation =>
        /\ asset.Location # ""
        /\ Locations # <<>>
        /\ ~InAllowList
        /\ ~IgnoreLocation

\* C14 (amended): a message that passes the interrupt and no-IP checks is
\* rejected on location grounds exactly when its asset declares a location,
\* the allow-list does not contain that location, and the ignore-location
\* override is not set; an empty allow-list contains no location, so with it
\* every asset that declares a location is rejected unless the override is
\* set.  A rejected message is counted once and no action is called for it.
C14_RejectsOutsideList ==
    /\ RejectedOnLocation =>
          /\ metrics["asset_recvd_location_unmanaged"] = 1
          /\ HandlerDone
          /\ hcalls = <<>>
    /\ (HandlerDone /\ ~sawBInterrupt /\ ~WithoutAddress) =>
          (RejectedOnLocation <=>
              (asset.Location # "" /\ ~InAllowList /\ ~IgnoreLocation))

C14_Witness ==
    /\ HandlerDone
    /\ Locations = <<>>
    /\ asset.Location # ""
    /\ asset.Configure
    /\ RejectedOnLocation

\* The calls configureAsset makes on a device or towards one.
DeviceCalls == {"Login", "LoadConfigResources", "SetupApply", "Apply", "Close"}

\* C15: with dry-run enabled configureAsset makes no login, probe, apply or
\* close call on any device and always returns success, for every asset.
C15_DryRunTouchesNothing ==
    DryRun =>
        /\ \A j \in 1..Len(hcalls) : hcalls[j] \notin DeviceCalls
        /\ client = Nil
        /\ ~clientOpen
        /\ returned \in {NotReturned, NoErr}
        /\ HasCall("configureAsset") =>
              /\ returned = NoErr
              /\ metrics["configure_success"] = 1
              /\ metrics["configure_fail"] = 0

C15_Witness ==
    /\ DryRun
    /\ HandlerDone
    /\ HasCall("configureAsset")
    /\ returned = NoErr
    /\ Len(asset.IPAddresses) = 2

\* C17: every handle returned by a successful login in configureAsset is
\* closed before configureAsset returns, on every exit path: after an apply
\* (fully successful, with failed resources, or cancelled), when the
\* rendered configuration is empty, and when the handle is of an unknown
\* device type.
C17_HandleClosedOnReturn ==
    (returned # NotReturned /\ client # Nil) =>
        /\ ~clientOpen
        /\ HasCall("Close")

\* The message passed the interrupt, no-IP and location checks.
ReachedSwitch ==
    /\ HandlerDone
    /\ ~sawBInterrupt
    /\ ~WithoutAddress
    /\ ~RejectedOnLocation

\* C20: msgHandler selects at most one action per message, in the priority
\* execute, then configure, then unknown: an asset with Execute and
\* Configure both set runs only the execute action, and an asset with
\* neither set triggers no login, execute or configure call.
C20_OneActionByPriority ==
    /\ Count(hcalls, "executeCommand") + Count(hcalls, "configureAsset") <= 1
    /\ HasCall("executeCommand") => asset.Execute
    /\ HasCall("configureAsset") => (asset.Configure /\ ~asset.Execute)
    /\ (asset.Execute /\ asset.Configure) =>
          /\ \A j \in 1..Len(hcalls) : hcalls[j] = "executeCommand"
          /\ ReachedSwitch => hcalls = <<"executeCommand">>
          /\ metrics["configure_fail"] + metrics["configure_success"] = 0
    /\ (~asset.Execute /\ ~asset.Configure) =>
          /\ hcalls = <<>>
          /\ \A n \in {"execute_fail", "execute_success",
                       "configure_fail", "configure_success"} : metrics[n] = 0
    /\ (ReachedSwitch /\ asset.Configure /\ ~asset.Execute) =>
          HasCall("configureAsset")

C20_Witness ==
    /\ HandlerDone
    /\ asset.Execute
    /\ asset.Configure
    /\ hcalls = <<"executeCommand">>
    /\ metrics["execute_success"] = 1

\* The entries of the asset's IP list Login() can connect through.
LoginIps == {asset.IPAddresses[j] : j \in 1..Len(asset.IPAddresses)} \ {""}

\* C29: configureAsset changes the asset's IPAddress only after a successful
\* Login(): when Login() fails, IPAddress, Vendor, Type and Serial are as
\* they were; when Login() succeeds through an IP of the asset, IPAddress is
\* that IP (the only IP when the asset has one).
C29_AddressSetBySuccessfulLogin ==
    [][hpc = "configure" =>
          /\ hpc' = "done" => asset' = asset
          /\ hpc' = "connected" =>
                /\ asset'.IPAddress \in LoginIps
                /\ Len(asset.IPAddresses) = 1 =>
                      asset'.IPAddress = asset.IPAddresses[1]]_vars

----------------------------------------------------------------------------
(* Properties of Runner.                                                   *)

RunnerDone == rpc = "done"

\* This step is a WorkerPool.Submit call of Runner.
Submits == rpc = "throttle" /\ rpc' = "loop"

\* C19: the dispatch loop never submits a task while the pool's waiting
\* queue is larger than the butler count, so the number of pending (queued,
\* unstarted) tasks never exceeds butler count + 1.
C19_QueueBounded ==
    /\ [](Len(waitingQueue) <= ButlersToSpawn + 1)
    /\ [][Submits => Len(waitingQueue) <= ButlersToSpawn]_vars

C19_Witness ==
    /\ Len(waitingQueue) = ButlersToSpawn + 1
    /\ Cardinality(BusyTasks) = ButlersToSpawn
    /\ rpc = "throttle"

\* C16: once the dispatch loop has observed the stop signal, tasks queued in
\* the pool but not yet started are never executed, tasks already executing
\* run to completion without being killed, and Runner signals completion
\* (SyncWG.Done) only after every in-flight task has finished.
C16_StopDrainsWorkersOnly ==
    /\ [](\A m \in abandoned :
             /\ task[m] = "none"
             /\ outcome[m] = "none"
             /\ m \notin applied)
    /\ [](bInterrupt => waitingQueue = <<>>)
    /\ [][\A m \in Executing : task'[m] \in {"running", "connected", "finished"}]_vars
    /\ [](RunnerDone =>
             /\ BusyTasks = {}
             /\ \A m \in inFlightAtStop :
                   /\ task[m] = "finished"
                   /\ outcome[m] \in {"login_failed", "logged_in"}
                   /\ outcome[m] = "logged_in" => m \in applied)

C16_Witness ==
    /\ RunnerDone
    /\ bInterrupt
    /\ abandoned # {}
    /\ \E m \in inFlightAtStop : m \in applied

LoginFailures == {m \in Msgs : outcome[m] = "login_failed"}

\* C18: a login failure for one asset ends only that asset's handling:
\* configureAsset returns the error without any apply call, msgHandler emits
\* exactly one configure-failure metric and returns, and every other
\* message submitted to the pool is still handled.
C18_LoginFailureIsLocal ==
    /\ \A m \in LoginFailures :
          /\ task[m] = "finished"
          /\ m \notin applied
    /\ metrics["configure_fail"] = Cardinality(LoginFailures)
    /\ metrics["configure_success"] = Cardinality(applied)
    /\ (RunnerDone /\ ~bInterrupt) =>
          \A m \in 1..sent :
              /\ task[m] = "finished"
              /\ outcome[m] \in {"login_failed", "logged_in"}
              /\ outcome[m] = "logged_in" => m \in applied

C18_Witness ==
    /\ RunnerDone
    /\ ~bInterrupt
    /\ outcome[1] = "login_failed"
    /\ {2, 3} \subseteq applied
    /\ metrics["configure_fail"] = 1

\* C25: once the stop channel is closed the dispatch loop hands no further
\* message to the worker pool, whatever is left on ButlerChan: no step taken
\* with the channel closed is the Submit() of line 77.
C25_NoSubmitAfterStop ==
    [][stopClosed => ~(rpc = "throttle" /\ rpc' = "loop")]_vars

\* C26: a msgHandler invocation that starts when b.interrupt is already set
\* returns at its first statement: the task is finished by that step and no
\* counter has moved.
C26_StartAfterFlagReturns ==
    [][\A m \in Msgs :
          (bInterrupt /\ task[m] = "assigned" /\ task'[m] # "assigned")
              => (task'[m] = "finished" /\ metrics' = metrics)]_vars

\* The messages that are on their way to a worker: on ButlerChan, in
\* Runner's hand, or in the pool's waiting queue.
Pending ==
    {butlerChan[j] : j \in 1..Len(butlerChan)}
        \cup {waitingQueue[j] : j \in 1..Len(waitingQueue)}
        \cup (IF msg # 0 THEN {msg} ELSE {})

\* C34: when ButlerChan is closed and the stop channel never is, every
\* message put on ButlerChan is passed to msgHandler exactly once (a message
\* a worker has taken is nowhere on the way to a worker again, and its
\* handler is entered from the assigned state only), and Runner returns,
\* running SyncWG.Done(), only after the handlers of all of them returned.
C34_EveryMessageHandledOnce ==
    /\ [](\A m \in Msgs : task[m] # "none" => m \notin Pending)
    /\ [][\A m \in Msgs :
             /\ task[m] # "none" => task'[m] # "none"
             /\ (task'[m] = "assigned" /\ task[m] # "assigned") => task[m] = "none"
             /\ (task'[m] = "running" /\ task[m] # "running") => task[m] = "assigned"]_vars
    /\ []((RunnerDone /\ ~stopClosed) =>
             /\ chanClosed
             /\ Pending = {}
             /\ \A m \in 1..sent : task[m] = "finished" /\ outcome[m] # "skipped")

C34_Witness ==
    /\ RunnerDone
    /\ ~stopClosed
    /\ sent >= 3
    /\ \A m \in 1..sent : task[m] = "finished"

\* C35: once the stop channel is closed Runner eventually returns and runs
\* SyncWG.Done(), when every started handler returns and scheduling is fair,
\* also while the producer keeps ButlerChan filled.
C35_StopLeadsToReturn == stopClosed ~> RunnerDone

C35_Witness ==
    /\ RunnerDone
    /\ stopClosed
    /\ bInterrupt
    /\ butlerChan # <<>>
    /\ inFlightAtStop # {}

----------------------------------------------------------------------------
(* Properties of the Dora iterators.                                       *)

\* The conditions the iterators treat as fatal.
FatalAnswers == {"unreachable", "non200", "unreadable", "undecodable"}

\* C24: when an iterator has stopped querying because the inventory could
\* not be reached, answered with a status other than 200 or sent a body that
\* cannot be decoded, it has returned and closed the asset channel; the
\* process has not been terminated.
C24_FatalClosesQueue ==
    (lastAnswer \in FatalAnswers /\ ipc # "query")
        => (ipc = "done" /\ assetsChanClosed)

\* C31: AssetIter does not query the same page again after a failed location
\* lookup: a pass of the page loop that ends with setLocation() returning an
\* error leaves the iterator on a later page, on the next asset type, or
\* returned with the channel closed.
C31_FailedLookupMovesOn ==
    [][(~bySerial /\ ipc = "query" /\ lastAnswer # NoLocation
           /\ lastAnswer' = NoLocation)
          => (<<tidx, page>>' # <<tidx, page>>
                 \/ (ipc' = "done" /\ assetsChanClosed'))]_vars

====
